---- MODULE Spec2Model ----
(***************************************************************************)
(* Ephemeral-secret signing examples (joe-p/ak-signing-examples).          *)
(*                                                                         *)
(* The repository is a set of independent scripts.  Each behaviour of the  *)
(* model is one run of one script (variable prog) on one host (variables   *)
(* platform, user):                                                        *)
(*   keyring      src/index.ts 1-88      @napi-rs/keyring Entry            *)
(*   platform     src/index.ts 90-164    darwin / linux / win32 dispatcher *)
(*   macwin       src/win.ts 50-108      darwin / win32 dispatcher,        *)
(*                                       backends of ./mac and ./win       *)
(*   macwinLocal  src/unnamed/part_001   darwin / win32 dispatcher with    *)
(*                                       its own backends                  *)
(*   mac          src/mac.ts             security(1) through execSync      *)
(*   aws          src/aws.ts             AWS KMS                           *)
(*                                                                         *)
(* Strings are sequences of one-character strings, byte buffers are        *)
(* sequences of numbers.  The external collaborators (algo25 mnemonic      *)
(* codec, noble Ed25519, the credential tools, KMS) are modelled by what   *)
(* the scripts rely on; where such a call can throw or reject the model    *)
(* takes every outcome.                                                    *)
(***************************************************************************)
EXTENDS Integers, Sequences, FiniteSets, TLC

\* ------------------------------------------------------------------ bounds
\* number of sign invocations one run starts
MaxCalls == 2
\* length of a seed buffer in the model (32 in the scripts)
SeedLen == 3
\* number of distinct seeds the demo may draw
NSeeds == 2
\* number of distinct Ed25519 keys the KMS key id may refer to
NKmsKeys == 2

\* ----------------------------------------------------------- characters
SP == " "
QUOTE == "'"
NL == "\n"
Whitespace == {SP, NL}
\* characters the POSIX shell interprets inside double quotes
ShSpecial == {"\"", "$"}

\* the word list of the mnemonic codec: word b encodes the byte value b - 1
WordList == <<"a", "b", "c", "d">>

\* ------------------------------------------------------------- results
Ok(v) == [ok |-> TRUE, val |-> v, err |-> ""]
Err(e) == [ok |-> FALSE, val |-> <<>>, err |-> e]

\* ------------------------------------------------------ string helpers
RECURSIVE TrimStart(_)
TrimStart(s) ==
  IF s = <<>> THEN s
  ELSE IF Head(s) \in Whitespace THEN TrimStart(Tail(s)) ELSE s

RECURSIVE TrimEnd(_)
TrimEnd(s) ==
  IF s = <<>> THEN s
  ELSE IF s[Len(s)] \in Whitespace THEN TrimEnd(SubSeq(s, 1, Len(s) - 1)) ELSE s

\* String.prototype.trim
Trim(s) == TrimEnd(TrimStart(s))

\* String.prototype.split(" "): the words between single spaces
RECURSIVE Split(_, _)
Split(s, cur) ==
  IF s = <<>> THEN <<cur>>
  ELSE IF Head(s) = SP THEN <<cur>> \o Split(Tail(s), <<>>)
  ELSE Split(Tail(s), Append(cur, Head(s)))

\* Array.prototype.join(" ")
RECURSIVE Join(_)
Join(words) ==
  IF words = <<>> THEN <<>>
  ELSE IF Len(words) = 1 THEN Head(words)
  ELSE Head(words) \o <<SP>> \o Join(Tail(words))

RECURSIVE SumSeq(_)
SumSeq(s) == IF s = <<>> THEN 0 ELSE Head(s) + SumSeq(Tail(s))

IndexOfWord(w) ==
  IF \E i \in DOMAIN WordList : <<WordList[i]>> = w
  THEN CHOOSE i \in DOMAIN WordList : <<WordList[i]>> = w
  ELSE 0

\* --------------------------------------------------- algo25 mnemonic codec
computeChecksum(seed) == <<WordList[(SumSeq(seed) % Len(WordList)) + 1]>>

\* one word per seed byte, then the checksum word
mnemonicFromSeed(seed) ==
  Join([i \in 1 .. Len(seed) |-> <<WordList[seed[i] + 1]>>] \o <<computeChecksum(seed)>>)

\* throws unless the phrase is SeedLen words of the list and a matching checksum
seedFromMnemonic(mn) ==
  LET words == Split(mn, <<>>)
      key == SubSeq(words, 1, SeedLen)
  IN IF Len(words) # SeedLen + 1 THEN Err("InvalidMnemonic")
     ELSE IF \E i \in 1 .. SeedLen : IndexOfWord(key[i]) = 0 THEN Err("InvalidMnemonic")
     ELSE LET bytes == [i \in 1 .. SeedLen |-> IndexOfWord(key[i]) - 1]
          IN IF computeChecksum(bytes) = words[Len(words)] THEN Ok(bytes)
             ELSE Err("InvalidMnemonic")

\* a recovery phrase: a string the codec decodes
IsMnemonic(s) == seedFromMnemonic(s).ok

\* ------------------------------------------------------------ Ed25519
\* Ideal scheme.  The public key is an injective function of the secret key,
\* and the one valid signature of (key, message) is the public key followed
\* by the message.
ed25519Pubkey(seed) == [i \in 1 .. Len(seed) |-> (seed[i] + 1) % Len(WordList)]
ed25519Sign(seed, data) == ed25519Pubkey(seed) \o data
nobleEd25519Verifier(sig, data, pubkey) == sig = pubkey \o data

ZeroFill(buf) == [i \in 1 .. Len(buf) |-> 0]
IsZero(buf) == \A i \in 1 .. Len(buf) : buf[i] = 0

\* ------------------------------------------------------- secret stores
\* A store maps the handles it has an entry for to the stored text.  A get
\* or set result carries the number of subprocesses the call spawned.
MNEMONIC_NAME == "algorand-mainnet-mnemonic"
OTHER_NAME == "algorand-testnet-mnemonic"
Handles == {MNEMONIC_NAME, OTHER_NAME}

Put(st, name, text) == [h \in (DOMAIN st) \cup {name} |-> IF h = name THEN text ELSE st[h]]

Got(text, n) == [ok |-> TRUE, val |-> text, err |-> "", spawn |-> n]
GetFailed(e, n) == [ok |-> FALSE, val |-> <<>>, err |-> e, spawn |-> n]
Stored(st, n) == [ok |-> TRUE, err |-> "", store |-> st, spawn |-> n]
SetFailed(e, st, n) == [ok |-> FALSE, err |-> e, store |-> st, spawn |-> n]

\* execFileSync(cmd, args, {encoding}).trim(): the tool's standard output,
\* trimmed; a non-zero exit status throws
run(exitOk, stdout) ==
  IF exitOk THEN Got(Trim(stdout), 1) ELSE GetFailed("Command failed", 1)

\* a get without the check of the password read
getMnemonicUnchecked(st, name) ==
  Got(IF name \in DOMAIN st THEN st[name] ELSE <<>>, 0)

\* @napi-rs/keyring: getPassword() is null when there is no entry
getMnemonic(st, name) ==
  LET mn == IF name \in DOMAIN st THEN st[name] ELSE <<>>
  IN IF name \notin DOMAIN st \/ mn = <<>>
     THEN GetFailed("No mnemonic found in keyring", 0)
     ELSE Got(mn, 0)

setMnemonic(st, name, mnemonic) == Stored(Put(st, name, mnemonic), 0)

\* security find-generic-password -a user -s name -w: prints the password and
\* a newline, exits 44 when there is no such item
getMacMnemonic(st, usr, name) ==
  IF usr = "" THEN GetFailed("USER is not set", 0)
  ELSE IF name \in DOMAIN st THEN run(TRUE, st[name] \o <<NL>>) ELSE run(FALSE, <<>>)

\* security add-generic-password -a user -s name -w mnemonic -U
setMacMnemonic(st, usr, name, mnemonic) ==
  IF usr = "" THEN SetFailed("USER is not set", st, 0)
  ELSE Stored(Put(st, name, mnemonic), 1)

\* secret-tool lookup: prints the stored secret, exits 1 when there is none
getLinuxMnemonic(st, name) ==
  IF name \in DOMAIN st THEN run(TRUE, st[name]) ELSE run(FALSE, <<>>)

\* secret-tool store reads the secret from standard input, which is the
\* mnemonic and a newline
setLinuxMnemonic(st, name, mnemonic) == Stored(Put(st, name, mnemonic \o <<NL>>), 1)

\* What PowerShell reads from the literal 'body': '' is one quote, and a
\* single quote ends the literal (the rest of body then breaks the command).
RECURSIVE PsSingleQuoted(_)
PsSingleQuoted(body) ==
  IF body = <<>> THEN Ok(<<>>)
  ELSE IF Head(body) # QUOTE
  THEN LET rest == PsSingleQuoted(Tail(body))
       IN IF rest.ok THEN Ok(<<Head(body)>> \o rest.val) ELSE rest
  ELSE IF Len(body) >= 2 /\ body[2] = QUOTE
  THEN LET rest == PsSingleQuoted(Tail(Tail(body)))
       IN IF rest.ok THEN Ok(<<QUOTE>> \o rest.val) ELSE rest
  ELSE Err("Command failed")

\* Get-StoredCredential, then the SecureString password converted to plain
\* text through a BSTR
getWindowsMnemonic(st, name) ==
  IF name \in DOMAIN st THEN run(TRUE, st[name] \o <<NL>>) ELSE run(FALSE, <<>>)

\* New-StoredCredential -Target 'name' -Password 'mnemonic': the mnemonic is
\* put between the quotes as it is
setWindowsMnemonic(st, name, mnemonic) ==
  LET password == PsSingleQuoted(mnemonic)
  IN IF password.ok THEN Stored(Put(st, name, password.val), 1)
     ELSE SetFailed("Command failed", st, 1)

\* value.replace(/'/g, "''")
RECURSIVE psSingleQuoteEscape(_)
psSingleQuoteEscape(value) ==
  IF value = <<>> THEN <<>>
  ELSE (IF Head(value) = QUOTE THEN <<QUOTE, QUOTE>> ELSE <<Head(value)>>)
       \o psSingleQuoteEscape(Tail(value))

\* what PowerShell writes for a SecureString object
SecureStringText == <<"System.Security.SecureString">>

\* part_001: Get-StoredCredential, then $c.Password written as it is.  The
\* password of the PSCredential is a SecureString.
getWindowsMnemonicLocal(st) ==
  IF MNEMONIC_NAME \in DOMAIN st THEN run(TRUE, SecureStringText \o <<NL>>)
  ELSE run(FALSE, <<>>)

\* part_001: the mnemonic is escaped before it is put between the quotes
setWindowsMnemonicLocal(st, mnemonic) ==
  LET password == PsSingleQuoted(psSingleQuoteEscape(mnemonic))
  IN IF password.ok THEN Stored(Put(st, MNEMONIC_NAME, password.val), 1)
     ELSE SetFailed("Command failed", st, 1)

\* part_001: the mac backend on the fixed handle
getMacMnemonicLocal(st, usr) ==
  IF usr = "" THEN GetFailed("USER is not set", 0)
  ELSE IF MNEMONIC_NAME \in DOMAIN st THEN run(TRUE, st[MNEMONIC_NAME] \o <<NL>>)
  ELSE run(FALSE, <<>>)

setMacMnemonicLocal(st, usr, mnemonic) ==
  IF usr = "" THEN SetFailed("USER is not set", st, 0)
  ELSE Stored(Put(st, MNEMONIC_NAME, mnemonic), 1)

\* What sh reads from "text" inside a command line: the text, unless it holds
\* a character the shell interprets between double quotes.
ShDoubleQuoted(text) ==
  IF \E i \in 1 .. Len(text) : text[i] \in ShSpecial THEN Err("Command failed")
  ELSE Ok(text)

\* mac.ts: execSync(`security find-generic-password -a "$USER" -s "name" -w`).trim()
macFind(st) ==
  IF MNEMONIC_NAME \in DOMAIN st THEN run(TRUE, st[MNEMONIC_NAME] \o <<NL>>)
  ELSE run(FALSE, <<>>)

\* mac.ts: execSync(`security add-generic-password ... -w "${mn}" -U`)
macAdd(st, mn) ==
  LET password == ShDoubleQuoted(mn)
  IN IF password.ok THEN Stored(Put(st, MNEMONIC_NAME, password.val), 1)
     ELSE SetFailed("Command failed", st, 1)

\* ------------------------------------------------------------ dispatchers
\* a dispatcher that lost its linux branch
getMnemonicForPlatformNoLinux(st, plat, usr, name) ==
  IF plat = "darwin" THEN getMacMnemonic(st, usr, name)
  ELSE IF plat = "win32" THEN getWindowsMnemonic(st, name)
  ELSE GetFailed("Unsupported platform", 0)

\* a dispatcher that falls through to the linux backend
setMnemonicForPlatformDefault(st, plat, usr, name, mnemonic) ==
  IF plat = "darwin" THEN setMacMnemonic(st, usr, name, mnemonic)
  ELSE IF plat = "win32" THEN setWindowsMnemonic(st, name, mnemonic)
  ELSE setLinuxMnemonic(st, name, mnemonic)

\* index.ts: darwin, linux and win32
getMnemonicForPlatform(st, plat, usr, name) ==
  IF plat = "darwin" THEN getMacMnemonic(st, usr, name)
  ELSE IF plat = "linux" THEN getLinuxMnemonic(st, name)
  ELSE IF plat = "win32" THEN getWindowsMnemonic(st, name)
  ELSE GetFailed("Unsupported platform", 0)

setMnemonicForPlatform(st, plat, usr, name, mnemonic) ==
  IF plat = "darwin" THEN setMacMnemonic(st, usr, name, mnemonic)
  ELSE IF plat = "linux" THEN setLinuxMnemonic(st, name, mnemonic)
  ELSE IF plat = "win32" THEN setWindowsMnemonic(st, name, mnemonic)
  ELSE SetFailed("Unsupported platform", st, 0)

\* win.ts: darwin and win32
getMnemonicForPlatformMacWin(st, plat, usr, name) ==
  IF plat = "darwin" THEN getMacMnemonic(st, usr, name)
  ELSE IF plat = "win32" THEN getWindowsMnemonic(st, name)
  ELSE GetFailed("Unsupported platform", 0)

setMnemonicForPlatformMacWin(st, plat, usr, name, mnemonic) ==
  IF plat = "darwin" THEN setMacMnemonic(st, usr, name, mnemonic)
  ELSE IF plat = "win32" THEN setWindowsMnemonic(st, name, mnemonic)
  ELSE SetFailed("Unsupported platform", st, 0)

\* part_001: darwin and win32, on the fixed handle
getMnemonicForPlatformLocal(st, plat, usr) ==
  IF plat = "darwin" THEN getMacMnemonicLocal(st, usr)
  ELSE IF plat = "win32" THEN getWindowsMnemonicLocal(st)
  ELSE GetFailed("Unsupported platform", 0)

setMnemonicForPlatformLocal(st, plat, usr, mnemonic) ==
  IF plat = "darwin" THEN setMacMnemonicLocal(st, usr, mnemonic)
  ELSE IF plat = "win32" THEN setWindowsMnemonicLocal(st, mnemonic)
  ELSE SetFailed("Unsupported platform", st, 0)

\* ------------------------------------------------------------- AWS KMS
KEY_ID == "kms-key-id"
PubkeyLen == 32
ed25519SpkiPrefix == <<48, 42, 48, 5, 6, 3, 43, 101, 112, 3, 33, 0>>

\* the raw public key of the k-th Ed25519 key KEY_ID may refer to
KmsPub(k) == [i \in 1 .. PubkeyLen |-> (37 * k + i) % 256]

\* a subarray that starts one byte early
subarrayFromOffByOne(buf, start) == SubSeq(buf, start, Len(buf))

\* Buffer.subarray(start, end) and Buffer.subarray(start), indices from 0,
\* clamped to the buffer
subarray(buf, start, end) ==
  SubSeq(buf, start + 1, IF end < Len(buf) THEN end ELSE Len(buf))
subarrayFrom(buf, start) == SubSeq(buf, start + 1, Len(buf))

\* a DER value with a one-byte length: a SEQUENCE whose length byte counts
\* the bytes that follow it
IsDer(buf) == Len(buf) >= 2 /\ buf[1] = 48 /\ buf[2] < 128 /\ Len(buf) = 2 + buf[2]

\* the SubjectPublicKeyInfo of a P-256 key, as DER: another prefix, 91 bytes
P256Spki ==
  <<48, 89, 48, 19, 6, 7, 42, 134, 72, 206, 61, 2, 1, 6, 8, 42, 134, 72, 206, 61, 3, 1, 7, 3, 66, 0>>
  \o [i \in 1 .. 65 |-> (4 + i) % 256]

\* What GetPublicKey may answer with: the DER of an Ed25519 key, the DER of a
\* key of another type, and byte strings that are not the DER of a key at all
\* (one prefix byte off, cut inside the prefix, a key part too short or too
\* long).
Envelopes ==
  {ed25519SpkiPrefix \o KmsPub(k) : k \in 1 .. NKmsKeys}
  \cup {P256Spki}
  \cup {[ed25519SpkiPrefix EXCEPT ![i] = (@ + 1) % 256] \o KmsPub(1) : i \in 1 .. 12}
  \cup {SubSeq(ed25519SpkiPrefix, 1, j) : j \in 0 .. 12}
  \cup {ed25519SpkiPrefix \o SubSeq(KmsPub(1), 1, PubkeyLen - 1),
        ed25519SpkiPrefix \o KmsPub(1) \o <<0>>}

\* ------------------------------------------------------------ the state
VARIABLES
  prog,      \* the script that runs
  platform,  \* process.platform
  user,      \* process.env.USER ("" when unset)
  store,     \* the credential store of the host: handle -> stored text
  written,   \* handle -> the text last handed to a set that returned
  log,       \* what console.debug has written
  calls,     \* the sign invocations: position, message, seed buffer, outcome
  pub,       \* the last getPubkey invocation: outcome and seed buffer
  lastOp,    \* the last direct get or set of the backend and its outcome
  kms,       \* aws.ts: the public-key fetch and the identity bound from it
  kmsKey,    \* the key KEY_ID refers to inside the service
  sent,      \* aws.ts: the payment was sent
  identity   \* the identity generateAddressWithSigners bound from getPubkey()

vars ==
  <<prog, platform, user, store, written, log, calls, pub, lastOp, kms, kmsKey, sent, identity>>

Progs == {"keyring", "platform", "macwin", "macwinLocal", "mac", "aws"}
EphemeralProgs == Progs \ {"aws"}
DispatchProgs == {"platform", "macwin", "macwinLocal"}
Platforms == {"darwin", "linux", "win32", "freebsd"}
Users == {"", "alice"}

\* crypto.getRandomValues(new Uint8Array(SeedLen)): the seeds a run may draw
Seeds == {[i \in 1 .. SeedLen |-> (k + i) % Len(WordList)] : k \in 1 .. NSeeds}
\* the texts handed to set: the mnemonics of the seeds, and a text that is no
\* mnemonic (leading blank, a single quote)
OtherTexts == {<<SP, "a", QUOTE>>}
SetInputs == {mnemonicFromSeed(s) : s \in Seeds} \cup OtherTexts
\* The messages handed to sign: the demos sign [1, 2, 3]; the c-th invocation
\* of a run signs a suffix of it, so that invocations sign different messages.
MsgsOf(c) == {SubSeq(<<1, 2, 3>>, ((c - 1) % 3) + 1, 3)}
CallIds == 1 .. MaxCalls

\* A sign invocation.  want is the text last stored under the signer's handle
\* when the invocation started (a history field); reqs and resp are the KMS
\* requests it sent and the response it received.
IdleCall == [pc |-> "idle", data |-> <<>>, want |-> <<>>, seed |-> <<>>, res |-> <<>>,
             err |-> "", reqs |-> <<>>, resp |-> [status |-> "none", present |-> FALSE, bytes |-> <<>>]]
NoPub == [pc |-> "none", val |-> <<>>, err |-> "", seed |-> <<>>]
NoOp == [op |-> "none", name |-> "", ok |-> TRUE, val |-> <<>>, err |-> "",
         spawn |-> 0, kept |-> TRUE]
KmsStart == [pc |-> "start", err |-> "", pubkey |-> <<>>,
             resp |-> [status |-> "none", present |-> FALSE, bytes |-> <<>>]]
EmptyStore == [h \in {} |-> <<>>]
\* No identity yet.  want is the text last stored under the signer's handle
\* when the identity was bound, before the invocations of sign started by then
\* (history fields).
NoIdentity == [pc |-> "none", ed25519Pubkey |-> <<>>, want |-> <<>>, before |-> {}]

\* the handles the script's get and set take: part_001 and mac.ts have the
\* handle fixed
ProgHandles == IF prog \in {"keyring", "platform", "macwin"} THEN Handles ELSE {MNEMONIC_NAME}

Init ==
  /\ prog \in Progs
  /\ platform \in (IF prog \in DispatchProgs THEN Platforms
                   ELSE IF prog = "mac" THEN {"darwin"} ELSE {"linux"})
  /\ user \in (IF prog \in DispatchProgs /\ platform = "darwin" THEN Users ELSE {"alice"})
  /\ kmsKey \in (IF prog = "aws" THEN 1 .. NKmsKeys ELSE {1})
  /\ store = EmptyStore
  /\ written = EmptyStore
  /\ log = {}
  /\ calls = [c \in CallIds |-> IdleCall]
  /\ pub = NoPub
  /\ lastOp = NoOp
  /\ kms = KmsStart
  /\ sent = FALSE
  /\ identity = NoIdentity

\* the script's own get and set on the host
ProgGet(st, name) ==
  IF prog = "keyring" THEN getMnemonic(st, name)
  ELSE IF prog = "platform" THEN getMnemonicForPlatform(st, platform, user, name)
  ELSE IF prog = "macwin" THEN getMnemonicForPlatformMacWin(st, platform, user, name)
  ELSE IF prog = "macwinLocal" THEN getMnemonicForPlatformLocal(st, platform, user)
  ELSE macFind(st)

ProgSet(st, name, mnemonic) ==
  IF prog = "keyring" THEN setMnemonic(st, name, mnemonic)
  ELSE IF prog = "platform" THEN setMnemonicForPlatform(st, platform, user, name, mnemonic)
  ELSE IF prog = "macwin" THEN setMnemonicForPlatformMacWin(st, platform, user, name, mnemonic)
  ELSE IF prog = "macwinLocal" THEN setMnemonicForPlatformLocal(st, platform, user, mnemonic)
  ELSE macAdd(st, mnemonic)

\* macWinSigner writes the mnemonic it retrieved with console.debug
LogsMnemonic == prog \in {"macwin", "macwinLocal"}

\* ------------------------------------------------------------- actions
\* set(name, mnemonic) on the script's backend
SetMnemonic(name, mnemonic) ==
  /\ prog \in EphemeralProgs
  /\ name \in ProgHandles
  /\ LET r == ProgSet(store, name, mnemonic)
     IN /\ store' = r.store
        /\ written' = IF r.ok THEN Put(written, name, mnemonic) ELSE written
        /\ lastOp' = [op |-> "set", name |-> name, ok |-> r.ok,
                      val |-> <<>>, err |-> r.err, spawn |-> r.spawn,
                      kept |-> (r.store = store)]
  /\ UNCHANGED <<prog, platform, user, log, calls, pub, kms, kmsKey, sent, identity>>

\* get(name) on the script's backend
GetMnemonic(name) ==
  /\ prog \in EphemeralProgs
  /\ name \in ProgHandles
  /\ LET r == ProgGet(store, name)
     IN lastOp' = [op |-> "get", name |-> name, ok |-> r.ok,
                   val |-> r.val, err |-> r.err, spawn |-> r.spawn, kept |-> TRUE]
  /\ UNCHANGED <<prog, platform, user, store, written, log, calls, pub, kms, kmsKey, sent, identity>>

\* a signer that keeps the mnemonic of its first invocation and uses it again
SignStartCached(data, mnemonic, derived) ==
  LET earlier == {d \in CallIds : calls[d].pc # "idle" /\ seedFromMnemonic(calls[d].want).ok}
      kept == IF earlier = {} THEN mnemonic
              ELSE Got(calls[CHOOSE d \in earlier : \A e \in earlier : d <= e].want, 0)
      sd == seedFromMnemonic(kept.val)
      call == [IdleCall EXCEPT !.data = data]
  IN IF ~kept.ok THEN [call EXCEPT !.pc = "failed", !.err = kept.err]
     ELSE IF ~sd.ok THEN [call EXCEPT !.pc = "failed", !.err = sd.err]
     ELSE IF ~derived
     THEN [call EXCEPT !.pc = "failed", !.seed = sd.val, !.err = "Key derivation failed"]
     ELSE [call EXCEPT !.pc = "awaiting", !.seed = sd.val]

\* the signer up to its await: get, (log,) seedFromMnemonic, nobleEd25519Generator,
\* and the call of the raw signer
SignStart(data, mnemonic, derived) ==
  LET sd == seedFromMnemonic(mnemonic.val)
      call == [IdleCall EXCEPT !.data = data]
  IN IF ~mnemonic.ok THEN [call EXCEPT !.pc = "failed", !.err = mnemonic.err]
     ELSE IF ~sd.ok THEN [call EXCEPT !.pc = "failed", !.err = sd.err]
     ELSE IF ~derived
     THEN [call EXCEPT !.pc = "failed", !.seed = sd.val, !.err = "Key derivation failed"]
     ELSE [call EXCEPT !.pc = "awaiting", !.seed = sd.val]

\* the text last stored under the signer's handle
Wanted == IF MNEMONIC_NAME \in DOMAIN written THEN written[MNEMONIC_NAME] ELSE <<>>

Sign(c, data) ==
  /\ prog \in EphemeralProgs
  /\ calls[c].pc = "idle"
  /\ \A d \in CallIds : d < c => calls[d].pc # "idle"
  /\ LET mnemonic == ProgGet(store, MNEMONIC_NAME)
     IN /\ log' = IF LogsMnemonic /\ mnemonic.ok THEN log \cup {mnemonic.val} ELSE log
        /\ \E derived \in BOOLEAN :
             calls' = [calls EXCEPT ![c] =
                         [SignStart(data, mnemonic, derived) EXCEPT !.want = Wanted]]
  /\ UNCHANGED <<prog, platform, user, store, written, pub, lastOp, kms, kmsKey, sent, identity>>

\* a signer whose seed is one buffer of the module: the zero-fill of an
\* invocation that has returned clears the key the others sign with
SignReturnShared(call) ==
  LET cleared == \E d \in CallIds : calls[d] # call /\ calls[d].pc = "returned"
      seed == IF cleared THEN ZeroFill(call.seed) ELSE call.seed
  IN [call EXCEPT !.pc = "returned", !.res = ed25519Sign(seed, call.data),
                  !.seed = ZeroFill(call.seed)]

\* after the await, the raw signer having resolved: seed.fill(0); return sig
SignReturn(call) ==
  [call EXCEPT !.pc = "returned", !.res = ed25519Sign(call.seed, call.data),
               !.seed = ZeroFill(call.seed)]

SignResolve(c) ==
  /\ prog \in EphemeralProgs
  /\ calls[c].pc = "awaiting"
  /\ calls' = [calls EXCEPT ![c] = SignReturn(calls[c])]
  /\ UNCHANGED <<prog, platform, user, store, written, log, pub, lastOp, kms, kmsKey, sent, identity>>

\* the raw signer having rejected: the await throws and the signer rejects
SignThrow(call) == [call EXCEPT !.pc = "failed", !.err = "Signing failed"]

SignReject(c) ==
  /\ prog \in EphemeralProgs
  /\ calls[c].pc = "awaiting"
  /\ calls' = [calls EXCEPT ![c] = SignThrow(calls[c])]
  /\ UNCHANGED <<prog, platform, user, store, written, log, pub, lastOp, kms, kmsKey, sent, identity>>

\* a getPubkey that zeroes the seed before it derives the key pair
getPubkeyZeroedFirst(mnemonic, derived) ==
  LET sd == seedFromMnemonic(mnemonic.val)
  IN IF ~mnemonic.ok THEN [NoPub EXCEPT !.pc = "failed", !.err = mnemonic.err]
     ELSE IF ~sd.ok THEN [NoPub EXCEPT !.pc = "failed", !.err = sd.err]
     ELSE IF ~derived
     THEN [NoPub EXCEPT !.pc = "failed", !.err = "Key derivation failed", !.seed = ZeroFill(sd.val)]
     ELSE [NoPub EXCEPT !.pc = "returned", !.val = ed25519Pubkey(ZeroFill(sd.val)),
                        !.seed = ZeroFill(sd.val)]

\* getPubkey(): get, seedFromMnemonic, nobleEd25519Generator, seed.fill(0)
getPubkey(mnemonic, derived) ==
  LET sd == seedFromMnemonic(mnemonic.val)
  IN IF ~mnemonic.ok THEN [NoPub EXCEPT !.pc = "failed", !.err = mnemonic.err]
     ELSE IF ~sd.ok THEN [NoPub EXCEPT !.pc = "failed", !.err = sd.err]
     ELSE IF ~derived
     THEN [NoPub EXCEPT !.pc = "failed", !.err = "Key derivation failed", !.seed = sd.val]
     ELSE [NoPub EXCEPT !.pc = "returned", !.val = ed25519Pubkey(sd.val),
                        !.seed = ZeroFill(sd.val)]

GetPubkey ==
  /\ prog \in {"keyring", "platform"}
  /\ \E derived \in BOOLEAN : pub' = getPubkey(ProgGet(store, MNEMONIC_NAME), derived)
  /\ UNCHANGED <<prog, platform, user, store, written, log, calls, lastOp, kms, kmsKey, sent, identity>>

\* generateAddressWithSigners({ rawEd25519Signer, ed25519Pubkey }): the identity
\* keeps the public key it is given and the signer, which is the script's own
generateAddressWithSigners(pubkey) ==
  [pc |-> "bound", ed25519Pubkey |-> pubkey, want |-> Wanted,
   before |-> {c \in CallIds : calls[c].pc # "idle"}]

\* const algorandAccount = generateAddressWithSigners({ rawEd25519Signer,
\* ed25519Pubkey: getPubkey() }): getPubkey() is evaluated first, and when it
\* throws nothing is bound
BindIdentity ==
  /\ prog \in {"keyring", "platform"}
  /\ identity.pc = "none"
  /\ \E derived \in BOOLEAN :
       LET got == getPubkey(ProgGet(store, MNEMONIC_NAME), derived)
       IN /\ pub' = got
          /\ identity' = IF got.pc = "returned" THEN generateAddressWithSigners(got.val)
                          ELSE identity
  /\ UNCHANGED <<prog, platform, user, store, written, log, calls, lastOp, kms, kmsKey, sent>>

\* --------------------------------------------------------- aws.ts actions
\* what kms.send may come back with: a rejection, or a response whose payload
\* field is absent or holds bytes
Rejected == [status |-> "rejected", present |-> FALSE, bytes |-> <<>>]
Absent == [status |-> "ok", present |-> FALSE, bytes |-> <<>>]
Payload(bytes) == [status |-> "ok", present |-> TRUE, bytes |-> bytes]

PublicKeyResponses == {Rejected, Absent} \cup {Payload(e) : e \in Envelopes}
SignResponses(data) ==
  {Rejected, Absent} \cup {Payload(b) : b \in {KmsPub(kmsKey) \o data, <<>>, <<7>>}}

SignCommand(data) ==
  [KeyId |-> KEY_ID, Message |-> data, MessageType |-> "RAW",
   SigningAlgorithm |-> "ED25519_SHA_512"]

\* a prefix check that compares only the bytes the envelope has
fetchPublicKeyLoose(resp) ==
  LET got == [KmsStart EXCEPT !.resp = resp]
      n == IF Len(resp.bytes) < 12 THEN Len(resp.bytes) ELSE 12
  IN IF resp.status = "rejected" THEN [got EXCEPT !.pc = "failed", !.err = "KMS request failed"]
     ELSE IF ~resp.present
     THEN [got EXCEPT !.pc = "failed", !.err = "No public key returned from KMS"]
     ELSE IF subarray(resp.bytes, 0, 12) # SubSeq(ed25519SpkiPrefix, 1, n)
     THEN [got EXCEPT !.pc = "failed", !.err = "Unexpected public key format"]
     ELSE [got EXCEPT !.pc = "bound", !.pubkey = subarrayFrom(resp.bytes, 12)]

\* the module body of aws.ts from the GetPublicKey call to the binding
fetchPublicKey(resp) ==
  LET got == [KmsStart EXCEPT !.resp = resp]
  IN IF resp.status = "rejected" THEN [got EXCEPT !.pc = "failed", !.err = "KMS request failed"]
     ELSE IF ~resp.present
     THEN [got EXCEPT !.pc = "failed", !.err = "No public key returned from KMS"]
     ELSE IF subarray(resp.bytes, 0, 12) # ed25519SpkiPrefix
     THEN [got EXCEPT !.pc = "failed", !.err = "Unexpected public key format"]
     ELSE [got EXCEPT !.pc = "bound", !.pubkey = subarrayFrom(resp.bytes, 12)]

KmsFetchPublicKey ==
  /\ prog = "aws"
  /\ kms.pc = "start"
  /\ \E resp \in PublicKeyResponses : kms' = fetchPublicKey(resp)
  /\ UNCHANGED <<prog, platform, user, store, written, log, calls, pub, lastOp, kmsKey, sent, identity>>

\* originalSigner up to its await: one SignCommand sent
originalSignerSend(data) ==
  [IdleCall EXCEPT !.pc = "awaiting", !.data = data, !.reqs = <<SignCommand(data)>>]

KmsSign(c, data) ==
  /\ prog = "aws"
  /\ kms.pc = "bound"
  /\ calls[c].pc = "idle"
  /\ \A d \in CallIds : d < c => calls[d].pc # "idle"
  /\ calls' = [calls EXCEPT ![c] = originalSignerSend(data)]
  /\ UNCHANGED <<prog, platform, user, store, written, log, pub, lastOp, kms, kmsKey, sent, identity>>

\* a signer that sends the command again when the response has no signature
originalSignerReturnRetry(call, resp) ==
  LET got == [call EXCEPT !.resp = resp]
  IN IF resp.status = "rejected" THEN [got EXCEPT !.pc = "failed", !.err = "KMS request failed"]
     ELSE IF ~resp.present
     THEN IF Len(call.reqs) < 2
          THEN [got EXCEPT !.reqs = Append(@, SignCommand(call.data))]
          ELSE [got EXCEPT !.pc = "failed", !.err = "No signature returned from KMS"]
     ELSE [got EXCEPT !.pc = "returned", !.res = resp.bytes]

\* originalSigner after its await
originalSignerReturn(call, resp) ==
  LET got == [call EXCEPT !.resp = resp]
  IN IF resp.status = "rejected" THEN [got EXCEPT !.pc = "failed", !.err = "KMS request failed"]
     ELSE IF ~resp.present
     THEN [got EXCEPT !.pc = "failed", !.err = "No signature returned from KMS"]
     ELSE [got EXCEPT !.pc = "returned", !.res = resp.bytes]

KmsRespond(c) ==
  /\ prog = "aws"
  /\ calls[c].pc = "awaiting"
  /\ \E resp \in SignResponses(calls[c].data) :
       calls' = [calls EXCEPT ![c] = originalSignerReturn(calls[c], resp)]
  /\ UNCHANGED <<prog, platform, user, store, written, log, pub, lastOp, kms, kmsKey, sent, identity>>

\* algorand.send.payment with the bound identity, once its signer returned
SendPayment ==
  /\ prog = "aws"
  /\ kms.pc = "bound"
  /\ ~sent
  /\ \E c \in CallIds : calls[c].pc = "returned"
  /\ sent' = TRUE
  /\ UNCHANGED <<prog, platform, user, store, written, log, calls, pub, lastOp, kms, kmsKey, identity>>

\* ------------------------------------------------------ the specification
Next ==
  \/ \E m \in SetInputs : SetMnemonic(MNEMONIC_NAME, m)
  \/ \E c \in CallIds : \E data \in MsgsOf(c) : Sign(c, data)
  \/ \E c \in CallIds : SignResolve(c)
  \/ \E c \in CallIds : SignReject(c)
  \/ GetPubkey
  \/ KmsFetchPublicKey
  \/ \E c \in CallIds : \E data \in MsgsOf(c) : KmsSign(c, data)
  \/ \E c \in CallIds : KmsRespond(c)
  \/ SendPayment

Spec == Init /\ [][Next]_vars

\* the secret backends alone: direct sets and gets on the host's store
NextStore ==
  \/ \E name \in Handles, m \in SetInputs : SetMnemonic(name, m)
  \/ \E name \in Handles : GetMnemonic(name)

SpecStore == Init /\ [][NextStore]_vars

\* the backends and the signer over them: sets of the signer's handle, gets of
\* that handle and of one never set, and sign invocations
NextSecret ==
  \/ \E m \in SetInputs : SetMnemonic(MNEMONIC_NAME, m)
  \/ \E name \in Handles : GetMnemonic(name)
  \/ \E c \in CallIds : \E data \in MsgsOf(c) : Sign(c, data)
  \/ \E c \in CallIds : SignResolve(c)
  \/ \E c \in CallIds : SignReject(c)

SpecSecret == Init /\ [][NextSecret]_vars

\* the two scripts of index.ts, which bind an identity from getPubkey(): sets
\* of the mnemonic of a seed, the bind, and sign invocations, in any order
InitBind == Init /\ prog \in {"keyring", "platform"}

NextBind ==
  \/ \E s \in Seeds : SetMnemonic(MNEMONIC_NAME, mnemonicFromSeed(s))
  \/ BindIdentity
  \/ \E c \in CallIds : \E data \in MsgsOf(c) : Sign(c, data)
  \/ \E c \in CallIds : SignResolve(c)
  \/ \E c \in CallIds : SignReject(c)

SpecBind == InitBind /\ [][NextBind]_vars

\* ------------------------------------------------------------ the claims
Completed(call) == call.pc \in {"returned", "failed"}
DesktopPlatforms == {"darwin", "linux", "win32"}
UnsupportedPlatform == "Unsupported platform"
MalformedPublicKeyFormat == "Unexpected public key format"
RemoteSignatureMissing == "No signature returned from KMS"
\* the failures of the Ed25519 library itself
LibraryErrors == {"Key derivation failed", "Signing failed"}

\* a buffer with one byte changed
ByteFlips(buf) ==
  {[buf EXCEPT ![i] = (@ + d) % 256] : i \in 1 .. Len(buf), d \in {1, 128, 255}}

\* C1: when key derivation or the signing step of a sign invocation raises, the
\* seed the invocation derived is all zero once the error has reached the caller.
C1_SeedZeroedOnError ==
  \A c \in CallIds :
    (prog \in EphemeralProgs /\ calls[c].pc = "failed" /\ calls[c].err \in LibraryErrors)
      => IsZero(calls[c].seed)

\* C2: outside an invocation in progress no seed buffer is non-zero: the seed of
\* every completed sign invocation, returned or failed, and of every completed
\* getPubkey invocation is all zero.
C2_NoSeedAfterCall ==
  /\ \A c \in CallIds : Completed(calls[c]) => IsZero(calls[c].seed)
  /\ pub.pc # "none" => IsZero(pub.seed)

\* C3: nothing written to the console is a mnemonic.
C3_MnemonicNeverLogged == \A text \in log : ~IsMnemonic(text)

\* C4: a sign invocation started while the mnemonic of seed s is stored under
\* the signer's handle does not fail on reading or decoding the secret, and the
\* signature it returns verifies under the public key of s, while verification
\* is false with any one byte of the signature or of the message changed.
C4_SignThenVerify ==
  \A c \in CallIds :
    (prog \in EphemeralProgs /\ IsMnemonic(calls[c].want)) =>
      LET s == seedFromMnemonic(calls[c].want).val
          pk == ed25519Pubkey(s)
          sig == calls[c].res
          data == calls[c].data
      IN /\ calls[c].pc = "failed" => calls[c].err \in LibraryErrors
         /\ calls[c].pc = "returned" =>
              /\ Len(data) > 0
              /\ nobleEd25519Verifier(sig, data, pk)
              /\ \A bad \in ByteFlips(sig) : ~nobleEd25519Verifier(bad, data, pk)
              /\ \A bad \in ByteFlips(data) : ~nobleEd25519Verifier(sig, bad, pk)

\* C5: on every backend, a get of a handle returns the mnemonic last set under
\* that handle.
C5_SetGetRoundTrip ==
  (lastOp.op = "get" /\ lastOp.name \in DOMAIN written /\ IsMnemonic(written[lastOp.name]))
    => (lastOp.ok /\ lastOp.val = written[lastOp.name])

\* C6 as stated: on darwin, linux and win32 no dispatcher fails a get or a set
\* with UnsupportedPlatform.
C6_ThreeDesktopPlatforms ==
  (prog \in DispatchProgs /\ platform \in DesktopPlatforms /\ lastOp.op # "none")
    => lastOp.err # UnsupportedPlatform

\* C6 as amended: the dispatcher of index.ts selects a backend on darwin, linux
\* and win32; the dispatchers of macWinSigner select one on darwin and win32 and
\* fail with UnsupportedPlatform on linux.
C6_DispatchPerScript ==
  lastOp.op # "none" =>
    /\ (prog = "platform" /\ platform \in DesktopPlatforms) => lastOp.err # UnsupportedPlatform
    /\ (prog \in {"macwin", "macwinLocal"} /\ platform \in {"darwin", "win32"})
         => lastOp.err # UnsupportedPlatform
    /\ (prog \in {"macwin", "macwinLocal"} /\ platform = "linux")
         => (~lastOp.ok /\ lastOp.err = UnsupportedPlatform)

C6_Witness ==
  prog = "platform" /\ platform = "linux" /\ lastOp.op = "get" /\ lastOp.ok
  /\ IsMnemonic(lastOp.val)

\* C7: on a platform other than darwin, linux and win32 every dispatcher fails
\* get and set with UnsupportedPlatform, spawns no subprocess and leaves the
\* store as it was.
C7_UnsupportedPlatform ==
  (prog \in DispatchProgs /\ platform \notin DesktopPlatforms /\ lastOp.op # "none")
    => /\ ~lastOp.ok
       /\ lastOp.err = UnsupportedPlatform
       /\ lastOp.spawn = 0
       /\ lastOp.kept
       /\ store = EmptyStore

C7_Witness ==
  prog = "platform" /\ platform = "freebsd" /\ lastOp.op = "set" /\ ~lastOp.ok

\* the first 12 bytes of an envelope differ from the Ed25519 prefix
PrefixDiffers(bytes) ==
  Len(bytes) < 12 \/ \E i \in 1 .. 12 : bytes[i] # ed25519SpkiPrefix[i]

\* C8: a returned envelope whose first 12 bytes differ from the prefix, shorter
\* envelopes included, fails the fetch with MalformedPublicKeyFormat; no
\* identity is bound, the signer is never invoked and no payment is sent.
C8_MalformedRejected ==
  (prog = "aws" /\ kms.resp.status = "ok" /\ kms.resp.present /\ PrefixDiffers(kms.resp.bytes))
    => /\ kms.pc = "failed"
       /\ kms.err = MalformedPublicKeyFormat
       /\ kms.pubkey = <<>>
       /\ \A c \in CallIds : calls[c].pc = "idle"
       /\ ~sent

C8_Witness ==
  prog = "aws" /\ kms.pc = "failed" /\ kms.err = MalformedPublicKeyFormat
  /\ kms.resp.present /\ Len(kms.resp.bytes) < 12

C10_KmsSignForwardsOnce ==
  \A c \in CallIds :
    (prog = "aws" /\ calls[c].pc # "idle") =>
      /\ calls[c].reqs = <<[KeyId |-> KEY_ID, Message |-> calls[c].data,
                            MessageType |-> "RAW",
                            SigningAlgorithm |-> "ED25519_SHA_512"]>>
      /\ (calls[c].resp.status = "ok" /\ ~calls[c].resp.present)
           => (calls[c].pc = "failed" /\ calls[c].err = RemoteSignatureMissing)
      /\ (calls[c].resp.status = "ok" /\ calls[c].resp.present)
           => (calls[c].pc = "returned" /\ calls[c].res = calls[c].resp.bytes)
      /\ calls[c].pc = "returned" => calls[c].resp.present

C10_Witness ==
  /\ prog = "aws"
  /\ \E c \in CallIds : calls[c].pc = "failed" /\ calls[c].err = RemoteSignatureMissing
  /\ \E c \in CallIds : calls[c].pc = "returned" /\ calls[c].res = <<>>

\* what a get fails with when the store has no entry for the handle: the
\* keyring's own error, or the failed command of the credential tool
SecretNotFound == {"No mnemonic found in keyring", "Command failed"}

\* the script has a backend for the host and the account of the user is known
BackendRuns ==
  /\ prog = "platform" => platform \in DesktopPlatforms
  /\ prog \in {"macwin", "macwinLocal"} => platform \in {"darwin", "win32"}
  /\ user # ""

\* C11: a get of a handle the store has no entry for fails and returns no
\* text, and a sign invocation started while the store has no entry for the
\* signer's handle fails with no seed derived and no signature; wherever the
\* backend runs, the error of both is SecretNotFound.
C11_SecretNotFound ==
  /\ DOMAIN store = DOMAIN written
  /\ (lastOp.op = "get" /\ lastOp.name \notin DOMAIN store)
       => /\ ~lastOp.ok
          /\ lastOp.val = <<>>
          /\ BackendRuns => lastOp.err \in SecretNotFound
  /\ \A c \in CallIds :
       (prog \in EphemeralProgs /\ calls[c].pc # "idle" /\ calls[c].want = <<>>)
         => /\ calls[c].pc = "failed"
            /\ calls[c].seed = <<>>
            /\ calls[c].res = <<>>
            /\ BackendRuns => calls[c].err \in SecretNotFound

C11_Witness ==
  /\ prog = "platform" /\ platform = "win32"
  /\ lastOp.op = "get" /\ lastOp.name = OTHER_NAME /\ OTHER_NAME \notin DOMAIN store
  /\ lastOp.err \in SecretNotFound
  /\ calls[1].pc = "failed" /\ calls[1].err \in SecretNotFound /\ calls[1].seed = <<>>
  /\ MNEMONIC_NAME \in DOMAIN store

\* C12: an invocation holds nothing before it starts, the seed it derives is
\* the seed of the mnemonic last set under the signer's handle when it started,
\* and the signature it returns verifies under the key of that mnemonic and
\* under the key of no other seed, whatever was stored and signed before.
C12_EachSignFetchesAnew ==
  \A c \in CallIds :
    prog \in EphemeralProgs =>
      /\ calls[c].pc = "idle" => calls[c] = IdleCall
      /\ calls[c].pc = "awaiting" =>
            /\ IsMnemonic(calls[c].want)
            /\ calls[c].seed = seedFromMnemonic(calls[c].want).val
      /\ calls[c].pc = "returned" =>
            /\ IsMnemonic(calls[c].want)
            /\ nobleEd25519Verifier(calls[c].res, calls[c].data,
                                     ed25519Pubkey(seedFromMnemonic(calls[c].want).val))
            /\ \A s \in Seeds :
                 s # seedFromMnemonic(calls[c].want).val
                   => ~nobleEd25519Verifier(calls[c].res, calls[c].data, ed25519Pubkey(s))

\* two invocations returned, the second after a set of another mnemonic
C12_Witness ==
  /\ calls[1].pc = "returned" /\ calls[2].pc = "returned"
  /\ IsMnemonic(calls[1].want) /\ IsMnemonic(calls[2].want)
  /\ calls[1].want # calls[2].want
  /\ nobleEd25519Verifier(calls[2].res, calls[2].data,
                           ed25519Pubkey(seedFromMnemonic(calls[2].want).val))

\* the sign invocations made through the bound identity: those started after
\* it was bound
SignedByIdentity == {c \in CallIds : identity.pc = "bound" /\ c \notin identity.before}

C17_InterleavedSignsIndependent ==
  \A c \in CallIds : \A d \in CallIds \ {c} :
    prog \in EphemeralProgs =>
      /\ (calls[c].pc = "awaiting" /\ Completed(calls[d])) =>
            /\ calls[c].seed = seedFromMnemonic(calls[c].want).val
            /\ ~IsZero(calls[c].seed)
      /\ (calls[c].pc = "returned" /\ calls[d].pc = "returned") =>
            /\ IsZero(calls[c].seed)
            /\ nobleEd25519Verifier(calls[c].res, calls[c].data,
                                     ed25519Pubkey(seedFromMnemonic(calls[c].want).val))
            /\ calls[c].data # calls[d].data =>
                 ~nobleEd25519Verifier(calls[c].res, calls[d].data,
                                       ed25519Pubkey(seedFromMnemonic(calls[c].want).val))

\* the second invocation started and returned while the first is at its await
C17_Witness ==
  /\ calls[1].pc = "awaiting" /\ calls[2].pc = "returned"
  /\ calls[1].want = calls[2].want
  /\ IsZero(calls[2].seed) /\ ~IsZero(calls[1].seed)

====
